---- MODULE Spec2Model ----
(***************************************************************************)
(* A model of src/server/trial.py: the FastAPI handler                     *)
(* generate_file_structure, run by one asyncio event loop for two          *)
(* concurrent requests that share the working directory.                   *)
(*                                                                         *)
(* Strings the code computes on (file names, tech_stack, texts) are        *)
(* sequences of one-character strings, so that lower(), endswith() and     *)
(* "\n".join() are computed and not assumed.  Strings the code only passes *)
(* on (error messages, the model's reply) are TLA+ strings.                *)
(*                                                                         *)
(* An uploaded payload is a sequence of chunks; each chunk is the part of  *)
(* the document that holds one page (PDF) or one paragraph (DOCX), and is  *)
(* represented by the text of that page or paragraph.                      *)
(***************************************************************************)
EXTENDS Integers, Sequences, FiniteSets, TLC

VARIABLES pc, req, fs, out, wrote, extractCalls, modelCalls, resolved, sent, reply

vars == <<pc, req, fs, out, wrote, extractCalls, modelCalls, resolved, sent, reply>>

(* The two requests in flight. *)
Reqs == {"r1", "r2"}

(* Longest uploaded payload, in chunks. *)
MaxPages == 1

----------------------------------------------------------------------------
(* Character strings *)

UpperChars == <<"A","B","C","D","E","F","G","H","I","J","K","L","M",
                "N","O","P","Q","R","S","T","U","V","W","X","Y","Z">>
LowerChars == <<"a","b","c","d","e","f","g","h","i","j","k","l","m",
                "n","o","p","q","r","s","t","u","v","w","x","y","z">>

LowerChar(c) ==
    IF \E i \in 1..26 : UpperChars[i] = c
    THEN LowerChars[CHOOSE i \in 1..26 : UpperChars[i] = c]
    ELSE c

(* str.lower() *)
Lower(s) == [i \in 1..Len(s) |-> LowerChar(s[i])]

(* str.endswith(suffix) *)
EndsWith(s, suffix) ==
    /\ Len(s) >= Len(suffix)
    /\ SubSeq(s, Len(s) - Len(suffix) + 1, Len(s)) = suffix

RECURSIVE Join(_, _)
(* sep.join(parts) *)
Join(sep, parts) ==
    IF Len(parts) = 0 THEN <<>>
    ELSE IF Len(parts) = 1 THEN parts[1]
    ELSE parts[1] \o sep \o Join(sep, Tail(parts))

NewLine == <<"\n">>

DjangoReact == <<"d","j","a","n","g","o","-","r","e","a","c","t">>
NodejsReact == <<"n","o","d","e","j","s","-","r","e","a","c","t">>
DotDocx == <<".","d","o","c","x">>
DotPdf  == <<".","p","d","f">>

(* An optional Python string: None, or a string. *)
None == [none |-> TRUE, s |-> <<>>]
Str(s) == [none |-> FALSE, s |-> s]

(* `not prd_text` *)
Falsy(t) == t.none \/ Len(t.s) = 0

----------------------------------------------------------------------------
(* Inputs *)

FileNames == { <<"a">> \o DotPdf, <<"a">> \o DotDocx, <<"a",".","t","x","t">> }

PageTexts == { <<"x">> }

RECURSIVE SeqsUpTo(_, _)
SeqsUpTo(S, n) ==
    IF n = 0 THEN { <<>> }
    ELSE LET shorter == SeqsUpTo(S, n - 1)
         IN  shorter \cup { Append(p, x) : p \in shorter, x \in S }

Payloads == SeqsUpTo(PageTexts, MaxPages)

NoUpload == [present |-> FALSE, filename |-> <<>>, payload |-> <<>>]

Uploads == [present : {TRUE}, filename : FileNames, payload : Payloads]

PrdTexts == { None, Str(<<>>), Str(<<"x">>) }

TechStacks == { DjangoReact,
                <<"D","j","a","n","g","o","-","R","e","a","c","t">>,
                <<"N","o","d","e","J","S","-","R","e","a","c","t">>,
                <<"r","a","i","l","s">> }

BadJson == "{bad json"
PartialTree == "{\"server\": {\"src\": {\"routes\": {}}}}"

Replies == { BadJson, PartialTree }

(* What client.chat.completions.create does: raise, or return a reply. *)
ModelOutcomes ==
    { [raised |-> TRUE, content |-> "APIError"] }
    \cup { [raised |-> FALSE, content |-> c] : c \in Replies }

----------------------------------------------------------------------------
(* Transient storage: the files temp_<filename> of the working directory *)

TempPath(filename) == <<"t","e","m","p","_">> \o filename

TempPaths == { TempPath(f) : f \in FileNames }

Absent == [exists |-> FALSE, content |-> <<>>]

(* open(file_path, "wb"): the file is created or truncated. *)
OpenWb == [exists |-> TRUE, content |-> <<>>]

(* buffer.write(data) through a descriptor opened at offset 0: the data
   replaces the first Len(data) chunks of whatever the file holds by then. *)
WriteAtStart(file, data) ==
    [exists |-> TRUE,
     content |-> data \o SubSeq(file.content, Len(data) + 1, Len(file.content))]

----------------------------------------------------------------------------
(* The handler *)

extract_text_from_docx(paragraphs) == Join(NewLine, paragraphs)

extract_text_from_pdf(pages) == Join(NewLine, pages)

Return(value) == [kind |-> "return", value |-> value]
Raise(exc) == [kind |-> "raise", value |-> [exception |-> exc]]
Pending == [kind |-> "pending", value |-> [pending |-> TRUE]]

UnsupportedFormatMsg == "Unsupported file format. Use DOCX or PDF."
NoTextMsg == "No PRD text provided."
InvalidStackMsg == "Invalid tech stack. Choose 'django-react' or 'nodejs-react'."

(* Variant of Boundary with no except clause: what is raised leaves the
   handler. *)
BoundaryNoCatch(raw) == raw

(* try: ... except Exception as e: return {"error": str(e)} *)
Boundary(raw) ==
    IF raw.kind = "raise" THEN Return([error |-> raw.value.exception]) ELSE raw

(* Variant of SupportedStack that compares tech_stack as given. *)
SupportedStackExact(tech_stack) == tech_stack \in {DjangoReact, NodejsReact}

(* tech_stack.lower() in ["django-react", "nodejs-react"] *)
SupportedStack(tech_stack) == Lower(tech_stack) \in {DjangoReact, NodejsReact}

(* base_structure = django_react_structure if ... else node_react_structure *)
BaseStructure(tech_stack) ==
    IF Lower(tech_stack) = DjangoReact
    THEN "django_react_structure" ELSE "node_react_structure"

(* prd_text as line 50 finds it, once line 50 is reached *)
Unresolved == [reached |-> FALSE, prd_text |-> None]
Resolved(prd_text) == [reached |-> TRUE, prd_text |-> prd_text]

NoPrompt == [made |-> FALSE, base_structure |-> "", prd_text |-> <<>>]
NoReply == [got |-> FALSE, content |-> ""]

(* Lines 43-48: the text taken from the stored upload.  parses = FALSE is
   the parsing library raising on what it reads. *)
ExtractUpload(filename, content, parses) ==
    IF EndsWith(filename, DotDocx) THEN
        [calls |-> 1,
         raw |-> IF parses THEN Return(Str(extract_text_from_docx(content)))
                 ELSE Raise("PackageNotFoundError")]
    ELSE IF EndsWith(filename, DotPdf) THEN
        [calls |-> 1,
         raw |-> IF parses THEN Return(Str(extract_text_from_pdf(content)))
                 ELSE Raise("FileDataError")]
    ELSE [calls |-> 0, raw |-> Return([error |-> UnsupportedFormatMsg])]

(* Variant of Generate that checks tech_stack only after the model call. *)
GenerateStackCheckLate(prd_text, tech_stack, m) ==
    IF Falsy(prd_text) THEN
        [raw |-> Return([error |-> NoTextMsg]), calls |-> 0,
         resolved |-> Resolved(prd_text), prompt |-> NoPrompt, reply |-> NoReply]
    ELSE
        [raw |-> IF m.raised THEN Raise(m.content)
                 ELSE IF ~SupportedStack(tech_stack)
                      THEN Return([error |-> InvalidStackMsg])
                      ELSE Return([file_structure |-> m.content]),
         calls |-> 1,
         resolved |-> Resolved(prd_text),
         prompt |-> [made |-> TRUE,
                     base_structure |-> BaseStructure(tech_stack),
                     prd_text |-> prd_text.s],
         reply |-> IF m.raised THEN NoReply
                   ELSE [got |-> TRUE, content |-> m.content]]

(* Variant of Generate that calls the model a second time when the first
   call raises. *)
GenerateRetries(prd_text, tech_stack, m) ==
    IF Falsy(prd_text) THEN
        [raw |-> Return([error |-> NoTextMsg]), calls |-> 0,
         resolved |-> Resolved(prd_text), prompt |-> NoPrompt, reply |-> NoReply]
    ELSE IF ~SupportedStack(tech_stack) THEN
        [raw |-> Return([error |-> InvalidStackMsg]), calls |-> 0,
         resolved |-> Resolved(prd_text), prompt |-> NoPrompt, reply |-> NoReply]
    ELSE
        [raw |-> IF m.raised THEN Raise(m.content)
                 ELSE Return([file_structure |-> m.content]),
         calls |-> IF m.raised THEN 2 ELSE 1,
         resolved |-> Resolved(prd_text),
         prompt |-> [made |-> TRUE,
                     base_structure |-> BaseStructure(tech_stack),
                     prd_text |-> prd_text.s],
         reply |-> IF m.raised THEN NoReply
                   ELSE [got |-> TRUE, content |-> m.content]]

(* Lines 50-174: the checks, the prompt and the model call, for the
   resolved text prd_text and the outcome m of the model call if made. *)
Generate(prd_text, tech_stack, m) ==
    IF Falsy(prd_text) THEN
        [raw |-> Return([error |-> NoTextMsg]), calls |-> 0,
         resolved |-> Resolved(prd_text), prompt |-> NoPrompt, reply |-> NoReply]
    ELSE IF ~SupportedStack(tech_stack) THEN
        [raw |-> Return([error |-> InvalidStackMsg]), calls |-> 0,
         resolved |-> Resolved(prd_text), prompt |-> NoPrompt, reply |-> NoReply]
    ELSE
        [raw |-> IF m.raised THEN Raise(m.content)
                 ELSE Return([file_structure |-> m.content]),
         calls |-> 1,
         resolved |-> Resolved(prd_text),
         prompt |-> [made |-> TRUE,
                     base_structure |-> BaseStructure(tech_stack),
                     prd_text |-> prd_text.s],
         reply |-> IF m.raised THEN NoReply
                   ELSE [got |-> TRUE, content |-> m.content]]

(* Lines 43-174 for an upload whose stored file holds content. *)
AfterWrite(filename, content, parses, prd_text, tech_stack, m) ==
    LET x == ExtractUpload(filename, content, parses)
    IN  IF x.raw.kind = "return" /\ x.calls = 1
        THEN [extractCalls |-> x.calls]
             @@ Generate(x.raw.value, tech_stack, m)
        ELSE [extractCalls |-> x.calls, raw |-> x.raw, calls |-> 0,
              resolved |-> Unresolved, prompt |-> NoPrompt, reply |-> NoReply]

Requests ==
    [file : {NoUpload} \cup Uploads, prd_text : PrdTexts, tech_stack : TechStacks]

NoRequest == [file |-> NoUpload, prd_text |-> None, tech_stack |-> <<>>]

Init ==
    /\ pc = [r \in Reqs |-> "idle"]
    /\ req = [r \in Reqs |-> NoRequest]
    /\ fs = [p \in TempPaths |-> Absent]
    /\ out = [r \in Reqs |-> Pending]
    /\ wrote = [r \in Reqs |-> FALSE]
    /\ extractCalls = [r \in Reqs |-> 0]
    /\ modelCalls = [r \in Reqs |-> 0]
    /\ resolved = [r \in Reqs |-> Unresolved]
    /\ sent = [r \in Reqs |-> NoPrompt]
    /\ reply = [r \in Reqs |-> NoReply]

(* A request without a file: the handler has no suspension point and runs
   to its return. *)
HandleText(r) ==
    /\ pc[r] = "idle"
    /\ \E q \in Requests, m \in ModelOutcomes :
        /\ ~q.file.present
        /\ LET g == Generate(q.prd_text, q.tech_stack, m)
           IN  /\ req' = [req EXCEPT ![r] = q]
               /\ out' = [out EXCEPT ![r] = Boundary(g.raw)]
               /\ modelCalls' = [modelCalls EXCEPT ![r] = g.calls]
               /\ resolved' = [resolved EXCEPT ![r] = g.resolved]
               /\ sent' = [sent EXCEPT ![r] = g.prompt]
               /\ reply' = [reply EXCEPT ![r] = g.reply]
    /\ pc' = [pc EXCEPT ![r] = "done"]
    /\ UNCHANGED <<fs, wrote, extractCalls>>

(* A request with a file, up to the await on file.read(): the temp file
   is opened for writing, which creates or truncates it. *)
OpenUpload(r) ==
    /\ pc[r] = "idle"
    /\ \E q \in Requests :
        /\ q.file.present
        /\ req' = [req EXCEPT ![r] = q]
        /\ fs' = [fs EXCEPT ![TempPath(q.file.filename)] = OpenWb]
    /\ pc' = [pc EXCEPT ![r] = "reading"]
    /\ UNCHANGED <<out, wrote, extractCalls, modelCalls, resolved, sent, reply>>

(* open() raises (the directory is not writable, say): no file is made. *)
OpenUploadFails(r) ==
    /\ pc[r] = "idle"
    /\ \E q \in Requests :
        /\ q.file.present
        /\ req' = [req EXCEPT ![r] = q]
    /\ out' = [out EXCEPT ![r] = Boundary(Raise("PermissionError"))]
    /\ pc' = [pc EXCEPT ![r] = "done"]
    /\ UNCHANGED <<fs, wrote, extractCalls, modelCalls, resolved, sent, reply>>

(* file.read() raises: the with block closes the empty file. *)
ReadUploadFails(r) ==
    /\ pc[r] = "reading"
    /\ out' = [out EXCEPT ![r] = Boundary(Raise("ReadError"))]
    /\ pc' = [pc EXCEPT ![r] = "done"]
    /\ UNCHANGED <<req, fs, wrote, extractCalls, modelCalls, resolved, sent, reply>>

(* file.read() returns: the rest of the handler has no suspension point. *)
FinishUpload(r) ==
    /\ pc[r] = "reading"
    /\ \E parses \in BOOLEAN, m \in ModelOutcomes :
        LET path == TempPath(req[r].file.filename)
            stored == WriteAtStart(fs[path], req[r].file.payload)
            a == AfterWrite(req[r].file.filename, stored.content, parses,
                            req[r].prd_text, req[r].tech_stack, m)
        IN  /\ fs' = [fs EXCEPT ![path] = stored]
            /\ wrote' = [wrote EXCEPT ![r] = TRUE]
            /\ extractCalls' = [extractCalls EXCEPT ![r] = a.extractCalls]
            /\ out' = [out EXCEPT ![r] = Boundary(a.raw)]
            /\ modelCalls' = [modelCalls EXCEPT ![r] = a.calls]
            /\ resolved' = [resolved EXCEPT ![r] = a.resolved]
            /\ sent' = [sent EXCEPT ![r] = a.prompt]
            /\ reply' = [reply EXCEPT ![r] = a.reply]
    /\ pc' = [pc EXCEPT ![r] = "done"]
    /\ UNCHANGED req

Next ==
    \E r \in Reqs :
        \/ HandleText(r)
        \/ OpenUpload(r)
        \/ OpenUploadFails(r)
        \/ ReadUploadFails(r)
        \/ FinishUpload(r)

Spec == Init /\ [][Next]_vars

----------------------------------------------------------------------------
(* Properties *)

Done(r) == pc[r] = "done"

Response(r) == out[r].value

IsError(r, msg) == out[r].kind = "return" /\ Response(r) = [error |-> msg]

ValidStack(r) == Lower(req[r].tech_stack) \in {DjangoReact, NodejsReact}

SupportedName(r) ==
    \/ EndsWith(req[r].file.filename, DotDocx)
    \/ EndsWith(req[r].file.filename, DotPdf)

(* The text the extractor gives for the request's own payload. *)
OwnText(r) ==
    IF EndsWith(req[r].file.filename, DotDocx)
    THEN extract_text_from_docx(req[r].file.payload)
    ELSE extract_text_from_pdf(req[r].file.payload)

(* Whether a reply of the model parses to a tree, and the node names of
   the tree it parses to. *)
ParsesToTree(text) == text = PartialTree

NodeNames(text) ==
    IF text = PartialTree THEN {"server", "src", "routes"} ELSE {}

MandatoryCategories == {"tests", "docs", "deployment", ".env"}

MalformedStructureMsgs == {"MalformedStructure: Expecting property name"}

(* C1: a request whose lower-cased tech_stack is not a supported
   identifier ends with the invalid-stack error, its payload never written
   to the temp file and no extractor called. *)
C1_StackValidatedFirst ==
    \A r \in Reqs :
        (Done(r) /\ ~ValidStack(r)) =>
            /\ IsError(r, InvalidStackMsg)
            /\ ~wrote[r]
            /\ extractCalls[r] = 0

(* C2: once a request that wrote its payload to temp_<filename> has
   returned (no other request having started), that file does not exist. *)
C2_StorageReleased ==
    \A r \in Reqs :
        (Done(r) /\ wrote[r] /\ \A o \in Reqs \ {r} : pc[o] = "idle") =>
            ~fs[TempPath(req[r].file.filename)].exists

(* C3: the text a request with an upload sends to the model is the text
   of its own payload, whatever the other request does. *)
C3_OwnPayloadOnly ==
    \A r \in Reqs :
        (req[r].file.present /\ sent[r].made) => sent[r].prd_text = OwnText(r)

(* C4: the model is called only for a request whose upload (if any) has a
   .pdf or .docx name, whose resolved text is non-empty and whose
   lower-cased tech_stack is supported; a request rejected for format or
   stack made no model call. *)
C4_ModelCallOnlyAfterChecks ==
    \A r \in Reqs :
        /\ modelCalls[r] > 0 =>
            /\ req[r].file.present => SupportedName(r)
            /\ resolved[r].reached /\ ~Falsy(resolved[r].prd_text)
            /\ sent[r].made /\ sent[r].prd_text = resolved[r].prd_text.s
            /\ ValidStack(r)
        /\ (IsError(r, UnsupportedFormatMsg) \/ IsError(r, InvalidStackMsg)) =>
            modelCalls[r] = 0

C4_Witness ==
    \E r \in Reqs :
        /\ Done(r) /\ modelCalls[r] = 1
        /\ req[r].file.present /\ extractCalls[r] = 1
        /\ \E o \in Reqs : IsError(o, InvalidStackMsg)

(* C5: a finished request has returned a response (nothing was raised
   out of the handler) that holds exactly one of the fields
   file_structure and error. *)
C5_ExactlyOneField ==
    \A r \in Reqs :
        Done(r) =>
            /\ out[r].kind = "return"
            /\ DOMAIN Response(r) \in { {"file_structure"}, {"error"} }

C5_Witness ==
    \E r, o \in Reqs :
        /\ Done(r) /\ IsError(r, "FileDataError")
        /\ Done(o) /\ modelCalls[o] = 1 /\ IsError(o, "APIError")

(* C6: a request without file and without text, or whose file extracts
   to empty text while no raw text is given, ends with the no-text error;
   a request whose raw prd_text is non-empty does not. *)
C6_NoInputText ==
    \A r \in Reqs :
        Done(r) =>
            /\ (~req[r].file.present /\ Falsy(req[r].prd_text)) =>
                   IsError(r, NoTextMsg)
            /\ (req[r].file.present /\ resolved[r].reached
                  /\ Falsy(resolved[r].prd_text) /\ Falsy(req[r].prd_text)) =>
                   IsError(r, NoTextMsg)
            /\ ~Falsy(req[r].prd_text) => ~IsError(r, NoTextMsg)

(* C7: when the model's reply parses to a tree, the returned
   file_structure has every mandatory category of the baseline. *)
C7_Reconciled ==
    \A r \in Reqs :
        (Done(r) /\ reply[r].got /\ ParsesToTree(reply[r].content)) =>
            /\ DOMAIN Response(r) = {"file_structure"}
            /\ MandatoryCategories \subseteq NodeNames(Response(r).file_structure)

(* C8: when the model's reply does not parse to a tree, the response is a
   failure that names MalformedStructure and carries the reply unchanged
   as raw_response. *)
C8_MalformedReplyFails ==
    \A r \in Reqs :
        (Done(r) /\ reply[r].got /\ ~ParsesToTree(reply[r].content)) =>
            /\ DOMAIN Response(r) = {"error", "raw_response"}
            /\ Response(r).error \in MalformedStructureMsgs
            /\ Response(r).raw_response = reply[r].content

(* C9: a tech_stack that lower-cases to django-react or nodejs-react is
   never rejected as invalid and selects the Django or the Node.js
   baseline; two requests whose stacks agree after lower-casing get the
   same baseline. *)
C9_CaseInsensitiveStack ==
    /\ \A r \in Reqs :
        Done(r) =>
            /\ ValidStack(r) => ~IsError(r, InvalidStackMsg)
            /\ (sent[r].made /\ Lower(req[r].tech_stack) = DjangoReact) =>
                   sent[r].base_structure = "django_react_structure"
            /\ (sent[r].made /\ Lower(req[r].tech_stack) = NodejsReact) =>
                   sent[r].base_structure = "node_react_structure"
    /\ \A r, o \in Reqs :
        (sent[r].made /\ sent[o].made
           /\ Lower(req[r].tech_stack) = Lower(req[o].tech_stack)) =>
            sent[r].base_structure = sent[o].base_structure

C9_Witness ==
    \E r, o \in Reqs :
        /\ req[r].tech_stack = DjangoReact
        /\ req[o].tech_stack # DjangoReact
        /\ Lower(req[o].tech_stack) = DjangoReact
        /\ sent[r].made /\ sent[o].made
        /\ sent[o].base_structure = "django_react_structure"

(* C10: a request calls the model at most once, and when that call
   raises the request ends with the error after the one call. *)
C10_NoRetry ==
    \A r \in Reqs :
        /\ modelCalls[r] <= 1
        /\ (Done(r) /\ IsError(r, "APIError")) => modelCalls[r] = 1

C10_Witness ==
    \E r \in Reqs : Done(r) /\ IsError(r, "APIError") /\ modelCalls[r] = 1

====
